---- MODULE Spec2Model ----
(***************************************************************************)
(* Calibration-parameter readers (scripts/src/ParamReader.cpp) and the     *)
(* per-hit transforms and main loop (scripts/calibrate.cpp).               *)
(*                                                                         *)
(* A C++ double is modelled as an exact rational [k, n, d] (k = "fin",     *)
(* n/d in lowest terms, d > 0) or one of the non-finite values "inf"       *)
(* (n = +1 / -1) and "nan".  Rounding of finite values is not modelled.    *)
(***************************************************************************)
EXTENDS Integers, Sequences, FiniteSets, TLC

(***************************************************************************)
(* double arithmetic                                                       *)
(***************************************************************************)
Abs(i) == IF i < 0 THEN -i ELSE i

Sgn(i) == IF i < 0 THEN -1 ELSE IF i > 0 THEN 1 ELSE 0

RECURSIVE GCD(_, _)
GCD(a, b) == IF b = 0 THEN a ELSE GCD(b, a % b)

NaN == [k |-> "nan", n |-> 0, d |-> 1]

Inf(s) == [k |-> "inf", n |-> s, d |-> 1]

Rat(num, den) ==
    LET g == GCD(Abs(num), den)
    IN  [k |-> "fin", n |-> Sgn(num) * (Abs(num) \div g), d |-> den \div g]

I(i) == Rat(i, 1)

IsFinite(a) == a.k = "fin"

Neg(a) == IF a.k = "nan" THEN a ELSE [a EXCEPT !.n = -a.n]

Add(a, b) ==
    IF a.k = "nan" \/ b.k = "nan" THEN NaN
    ELSE IF a.k = "inf" THEN (IF b.k = "inf" /\ b.n # a.n THEN NaN ELSE a)
    ELSE IF b.k = "inf" THEN b
    ELSE LET g == GCD(a.d, b.d)
         IN  Rat(a.n * (b.d \div g) + b.n * (a.d \div g), (a.d \div g) * b.d)

Sub(a, b) == Add(a, Neg(b))

Mul(a, b) ==
    IF a.k = "nan" \/ b.k = "nan" THEN NaN
    ELSE IF a.k = "inf" \/ b.k = "inf"
         THEN (IF a.n = 0 \/ b.n = 0 THEN NaN ELSE Inf(Sgn(a.n) * Sgn(b.n)))
    ELSE LET g == GCD(Abs(a.n), b.d)
             h == GCD(Abs(b.n), a.d)
         IN  Rat((a.n \div g) * (b.n \div h), (a.d \div h) * (b.d \div g))

\* x / y of two doubles: a zero divisor gives inf or nan, never a trap
Div(a, b) ==
    IF a.k = "nan" \/ b.k = "nan" THEN NaN
    ELSE IF a.k = "inf" THEN (IF b.k = "inf" THEN NaN
                              ELSE Inf(a.n * (IF b.n < 0 THEN -1 ELSE 1)))
    ELSE IF b.k = "inf" THEN I(0)
    ELSE IF b.n = 0 THEN (IF a.n = 0 THEN NaN ELSE Inf(Sgn(a.n)))
    ELSE Mul(a, [k |-> "fin", n |-> Sgn(b.n) * b.d, d |-> Abs(b.n)])

\* x < y of two doubles: every comparison with nan is false
Lt(a, b) ==
    IF a.k = "nan" \/ b.k = "nan" THEN FALSE
    ELSE IF a.k = "inf" THEN a.n < 0 /\ ~(b.k = "inf" /\ b.n < 0)
    ELSE IF b.k = "inf" THEN b.n > 0
    ELSE LET g == GCD(a.d, b.d)
         IN  a.n * (b.d \div g) < b.n * (a.d \div g)

Gt(a, b) == Lt(b, a)

Ge(a, b) == a.k # "nan" /\ b.k # "nan" /\ ~Lt(a, b)

\* std::pow(x, i) for a small non-negative integer exponent
RECURSIVE Pow(_, _)
Pow(x, i) == IF i = 0 THEN I(1) ELSE Mul(x, Pow(x, i - 1))

\* the implicit conversion double -> int: truncation toward zero
ToInt(a) == Sgn(a.n) * (Abs(a.n) \div a.d)

(***************************************************************************)
(* bounds of the model                                                     *)
(***************************************************************************)
\* bars 1..NBars stand for the detector bars (1..24 in the readers' loops)
NBars == 2

\* runs are 1..MaxRun
MaxRun == 2

\* a bar's series in a calibration file holds at most MaxLen records
MaxLen == 2

\* a reader under test receives at most MaxCalls calls
MaxCalls == 3

Units == 1..NBars

Runs == 1..MaxRun

\* closed run ranges [run_start, run_end]
Ranges == {rr \in Runs \X Runs : rr[1] <= rr[2]}

RECURSIVE SeqsUpTo(_, _)
SeqsUpTo(S, len) ==
    IF len = 0 THEN {<<>>}
    ELSE LET shorter == SeqsUpTo(S, len - 1)
         IN  shorter \cup {Append(q, x) : q \in {t \in shorter : Len(t) = len - 1}, x \in S}

\* the run ranges of the records of bar 1, in file order; bar u's series
\* holds the records from the u-th on, so that bars differ in coverage
Windows == SeqsUpTo(Ranges, MaxLen)

VARIABLES
    project_dir,\* whether the environment variable PROJECT_DIR is set
    win,        \* the run ranges written in the calibration files
    fopen,      \* fopen[f]: whether file f can be opened
    under_test, \* which reader the caller drives ("lin": the linearisation alone, "main": the program calibrate)
    probe,      \* the bar the caller asks the reader about
    hit,        \* the hit the caller passes to get_psd
    constructed,\* whether the reader under test has been constructed
    proc,       \* "running", "exited" (exit(1)), "hung", "returned"
    err,        \* the diagnostics printed on std::cerr
    ncalls,     \* calls made so far
    ret,        \* the most recent call and what it returned
    loaded_run, \* the run of the most recent load (0: none yet)
    param,      \* NWPositionCalibParamReader::param
    populated,  \* the keys of param that a load has written
    tof,        \* NWTimeOfFlightCalibParamReader: database, tof_offset
    adc,        \* NWADCPreprocessorParamReader: fast_total_L, fast_total_R, log_ratio_total
    light,      \* NWLightOutputCalibParamReader: run_param
    psd_file,   \* the parameter block written in the PSD calibration file
    psd,        \* NWPulseShapeDiscriminationParamReader: database (whether the file has
                \* been read into it), the Interpolator maps, pca_mean, pca_components,
                \* pca_xpeaks
    pc,         \* main: the statement it is at
    ievt,       \* main: the entry the loop is at
    evt,        \* main: the entry fetched and its calibrated fields
    outtree     \* main: the entries filled into the output tree

envVars == <<project_dir, win, fopen, psd_file, under_test, probe, hit>>

mainVars == <<pc, ievt, evt, outtree>>

posVars == <<param, populated>>

vars == <<envVars, constructed, proc, err, ncalls, ret, loaded_run, posVars, tof, adc, light,
          psd, mainVars>>

FileNames == {"pcalib", "pca", "tof", "fast_total_L", "fast_total_R", "log_ratio_total", "pul",
              "psd", "local_paths"}

NoRet == [op |-> "none", args |-> <<>>, val |-> <<>>]

(***************************************************************************)
(* calibration files                                                       *)
(***************************************************************************)
\* the records of bar u: those of win from the u-th on
BarWindows(w, u) == SubSeq(w, u, Len(w))

\* position calibration JSON: {"bar": [{"run_range": [a, b], "parameters": [p0, p1]}, ...]}
\* bar 1's first record carries p0 = 5.0, p1 = 0.02; the others differ from it and
\* from each other
PosParameters(u, i) == <<Rat(10 * i + 5 * (u - 1), 2), Rat(i, 50 * u)>>

PosDb(w) ==
    [u \in Units |->
        [i \in 1..Len(BarWindows(w, u)) |->
            [run_range |-> BarWindows(w, u)[i], parameters |-> PosParameters(u, i)]]]

\* PCA text file: rows <bar> <vec> <x> <y> <z>
PcaRows == [u \in Units |-> [bar |-> u, vec |-> "L", x |-> Rat(u, 2), y |-> I(0), z |-> I(-u)]]

\* vec + "0", vec + "1", vec + "2"
VecKey(vec, i) ==
    IF vec = "L" THEN <<"L0", "L1", "L2">>[i + 1] ELSE <<"X0", "X1", "X2">>[i + 1]

(***************************************************************************)
(* NWPositionCalibParamReader                                              *)
(***************************************************************************)
\* a scan without the break: the last covering record wins
RECURSIVE PosScanNoBreak(_, _, _)
PosScanNoBreak(series, run, i) ==
    IF i > Len(series) THEN 0
    ELSE LET later == PosScanNoBreak(series, run, i + 1)
         IN  IF later # 0 THEN later
             ELSE IF run >= series[i].run_range[1] /\ run <= series[i].run_range[2] THEN i
             ELSE 0

\* for (run_range_entry : bar_entry) if (run >= run_start && run <= run_end) {...; break;}
\* the index of the record the loop stops at, 0 when it runs to the end
RECURSIVE PosScan(_, _, _)
PosScan(series, run, i) ==
    IF i > Len(series) THEN 0
    ELSE IF run >= series[i].run_range[1] /\ run <= series[i].run_range[2] THEN i
    ELSE PosScan(series, run, i + 1)

\* the keys the loop over json_data.items() assigns: p0 and p1 of every bar whose
\* series holds a record covering run
PosJsonKeys(db, run) ==
    LET covered == {u \in DOMAIN db : PosScan(db[u], run, 1) # 0}
    IN  {<<u, "p0">> : u \in covered} \cup {<<u, "p1">> : u \in covered}

\* param after the loop over json_data.items()
PosLoadJson(p, db, run) ==
    LET keys == PosJsonKeys(db, run)
    IN  [k \in DOMAIN p \cup keys |->
            IF k \in keys
            THEN LET rec == db[k[1]][PosScan(db[k[1]], run, 1)]
                 IN  IF k[2] = "p0" THEN rec.parameters[1] ELSE rec.parameters[2]
            ELSE p[k]]

\* the keys the loop over the lines of the PCA file assigns
PosPcaKeys(rows) == {<<rows[j].bar, VecKey(rows[j].vec, i)>> : j \in DOMAIN rows, i \in 0..2}

\* param after the loop over the lines of the PCA file
PosLoadPca(p, rows) ==
    LET keys == PosPcaKeys(rows)
        val(k) == LET j == CHOOSE j \in DOMAIN rows :
                               rows[j].bar = k[1] /\ k[2] \in {VecKey(rows[j].vec, i) : i \in 0..2}
                  IN  IF k[2] = VecKey(rows[j].vec, 0) THEN rows[j].x
                      ELSE IF k[2] = VecKey(rows[j].vec, 1) THEN rows[j].y
                      ELSE rows[j].z
    IN  [k \in DOMAIN p \cup keys |-> IF k \in keys THEN val(k) ELSE p[k]]

\* bool NWPositionCalibParamReader::load(int run): the map it leaves and its result
PosLoadResult(p, w, fo, run) ==
    IF ~fo["pcalib"] THEN [param |-> p, ok |-> FALSE, msg |-> {"pcalib"}, written |-> {}]
    ELSE LET p1 == PosLoadJson(p, PosDb(w), run)
             k1 == PosJsonKeys(PosDb(w), run)
         IN  IF ~fo["pca"] THEN [param |-> p1, ok |-> FALSE, msg |-> {"pca"}, written |-> k1]
             ELSE [param |-> PosLoadPca(p1, PcaRows), ok |-> TRUE, msg |-> {},
                   written |-> k1 \cup PosPcaKeys(PcaRows)]

\* a lookup that hands out the bad-data value for a key that is not there
MapIndexBadValue(p, k) ==
    IF k \in DOMAIN p THEN p ELSE [x \in DOMAIN p \cup {k} |-> IF x = k THEN I(-9999) ELSE p[x]]

\* this->param[{bar, par}]: operator[] of the map inserts a value-initialised
\* (0.0) entry for a key that is not there and returns it
MapIndex(p, k) == IF k \in DOMAIN p THEN p ELSE [x \in DOMAIN p \cup {k} |-> IF x = k THEN I(0) ELSE p[x]]

\* double NWPositionCalibParamReader::get(int bar, const std::string& par)
get(p, bar, par) == [param |-> MapIndex(p, <<bar, par>>), val |-> MapIndex(p, <<bar, par>>)[<<bar, par>>]]

\* double get_position(nw_pcalib, bar, time_L, time_R)
get_position(p, bar, time_L, time_R) ==
    LET g0   == get(p, bar, "p0")
        p0   == ToInt(g0.val)
        g1   == get(g0.param, bar, "p1")
        p1   == ToInt(g1.val)
        pos  == Add(I(p0), Mul(I(p1), Sub(time_L, time_R)))
    IN  [param |-> g1.param, val |-> pos]

(***************************************************************************)
(* the caller of a reader: constructs it, then calls its methods           *)
(***************************************************************************)
\* the arguments the caller passes
GetBars == Units \cup {NBars + 1}

GetKeys == {"p0", "p1"}

Times == {<<I(100), I(80)>>, <<I(80), I(80)>>}

Alive == proc = "running"

Call(reader) == under_test = reader /\ Alive /\ constructed /\ ncalls < MaxCalls

CannotOpen(f) == [kind |-> "cannot_open", what |-> f, run |-> 0, bar |-> 0]

NoProjectDir == [kind |-> "no_project_dir", what |-> "PROJECT_DIR", run |-> 0, bar |-> 0]

RunNotFound(run, bar) == [kind |-> "run_not_found", what |-> "", run |-> run, bar |-> bar]

\* NWPositionCalibParamReader(AB): resolves the two paths, opens nothing
PosConstruct ==
    /\ under_test = "pos" /\ Alive /\ ~constructed
    /\ constructed' = TRUE
    /\ UNCHANGED <<envVars, psd, mainVars, proc, err, ncalls, ret, loaded_run, posVars, tof, adc, light>>

PosLoad(run) ==
    /\ Call("pos")
    /\ LET r == PosLoadResult(param, win, fopen, run)
       IN  /\ param' = r.param
           /\ populated' = populated \cup r.written
           /\ err' = err \cup {CannotOpen(m) : m \in r.msg}
           /\ ret' = [op |-> "load", args |-> <<run>>, val |-> <<r.ok>>]
    /\ loaded_run' = run
    /\ ncalls' = ncalls + 1
    /\ UNCHANGED <<envVars, psd, mainVars, constructed, proc, tof, adc, light>>

PosGet(bar, par) ==
    /\ Call("pos")
    /\ LET r == get(param, bar, par)
       IN  /\ param' = r.param
           /\ ret' = [op |-> "get", args |-> <<bar, par>>, val |-> <<r.val>>]
    /\ ncalls' = ncalls + 1
    /\ UNCHANGED <<envVars, psd, mainVars, constructed, proc, err, loaded_run, populated, tof, adc, light>>

PosGetPosition(bar, t) ==
    /\ Call("pos")
    /\ LET r == get_position(param, bar, t[1], t[2])
       IN  /\ param' = r.param
           /\ ret' = [op |-> "get_position", args |-> <<bar, t[1], t[2]>>, val |-> <<r.val>>]
    /\ ncalls' = ncalls + 1
    /\ UNCHANGED <<envVars, psd, mainVars, constructed, proc, err, loaded_run, populated, tof, adc, light>>

(***************************************************************************)
(* NWTimeOfFlightCalibParamReader                                          *)
(***************************************************************************)
\* TOF offset JSON: {"bar": [{"run_range": [a, b], "tof_offset": x}, ...]}
TofDb(w) ==
    [u \in Units |->
        [i \in 1..Len(BarWindows(w, u)) |->
            [run_range |-> BarWindows(w, u)[i], tof_offset |-> Rat(3 * i + u, 2)]]]

\* for (par_info : bar_info) { if (run < run_range[0] || run > run_range[1]) continue; ...; break; }
RECURSIVE TofScan(_, _, _)
TofScan(bar_info, run, i) ==
    IF i > Len(bar_info) THEN 0
    ELSE IF run < bar_info[i].run_range[1] \/ run > bar_info[i].run_range[2]
         THEN TofScan(bar_info, run, i + 1)
    ELSE i

\* void NWTimeOfFlightCalibParamReader::load(int run): tof_offset after the loop
\* over database.items(), and the bars it reports as not found
TofLoadResult(offs, db, run) ==
    LET found == {u \in DOMAIN db : TofScan(db[u], run, 1) # 0}
    IN  [tof_offset |-> [u \in DOMAIN offs \cup found |->
                            IF u \in found THEN db[u][TofScan(db[u], run, 1)].tof_offset
                            ELSE offs[u]],
         msg |-> {RunNotFound(run, u) : u \in DOMAIN db \ found}]

\* NWTimeOfFlightCalibParamReader(AB, load_params)
TofConstruct(load_params) ==
    /\ under_test = "tof" /\ Alive /\ ~constructed
    /\ IF ~project_dir
       THEN /\ err' = err \cup {NoProjectDir}
            /\ proc' = "exited"
            /\ UNCHANGED <<constructed, tof>>
       ELSE IF load_params /\ ~fopen["tof"]
       THEN /\ err' = err \cup {CannotOpen("tof")}
            /\ proc' = "exited"
            /\ UNCHANGED <<constructed, tof>>
       ELSE /\ constructed' = TRUE
            /\ tof' = IF load_params THEN [tof EXCEPT !.database = TofDb(win)] ELSE tof
            /\ UNCHANGED <<err, proc>>
    /\ UNCHANGED <<envVars, psd, mainVars, ncalls, ret, loaded_run, posVars, adc, light>>

\* void NWTimeOfFlightCalibParamReader::load_tof_offset()
TofLoadTofOffset ==
    /\ Call("tof")
    /\ IF ~fopen["tof"]
       THEN /\ err' = err \cup {CannotOpen("tof")}
            /\ proc' = "exited"
            /\ UNCHANGED tof
       ELSE /\ tof' = [tof EXCEPT !.database = TofDb(win)]
            /\ UNCHANGED <<err, proc>>
    /\ ret' = [op |-> "load_tof_offset", args |-> <<>>, val |-> <<>>]
    /\ ncalls' = ncalls + 1
    /\ UNCHANGED <<envVars, psd, mainVars, constructed, loaded_run, posVars, adc, light>>

TofLoad(run) ==
    /\ Call("tof")
    /\ LET r == TofLoadResult(tof.tof_offset, tof.database, run)
       IN  /\ tof' = [tof EXCEPT !.tof_offset = r.tof_offset]
           /\ err' = err \cup r.msg
    /\ ret' = [op |-> "load", args |-> <<run>>, val |-> <<>>]
    /\ loaded_run' = run
    /\ ncalls' = ncalls + 1
    /\ UNCHANGED <<envVars, psd, mainVars, constructed, proc, posVars, adc, light>>

(***************************************************************************)
(* NWADCPreprocessorParamReader                                            *)
(***************************************************************************)
SideNo(side) == IF side = "L" THEN 0 ELSE 1

\* fast-total JSON of one side
FastTotalDb(w, side) ==
    [u \in Units |->
        [i \in 1..Len(BarWindows(w, u)) |->
            [run_range |-> BarWindows(w, u)[i],
             nonlinear_fast_threshold |-> I(1000 * i + u),
             stationary_point_x |-> I(100 * i + SideNo(side)),
             stationary_point_y |-> I(200 * i + SideNo(side)),
             linear_fit_params |-> <<I(i), Rat(u, 2)>>,
             quadratic_fit_params |-> <<Rat(i, 4), I(SideNo(side)), Rat(1, 100 * i)>>]]]

\* log-ratio JSON
LogRatioDb(w) ==
    [u \in Units |->
        [i \in 1..Len(BarWindows(w, u)) |->
            [run_range |-> BarWindows(w, u)[i],
             attenuation_length |-> I(50 * i + u),
             gain_ratio |-> Rat(i + u, 3)]]]

\* for (chunk : bar_content) if (chunk.run_range[0] <= run && run <= chunk.run_range[1]) { info = chunk; break; }
RECURSIVE AdcScan(_, _, _)
AdcScan(bar_content, run, i) ==
    IF i > Len(bar_content) THEN 0
    ELSE IF bar_content[i].run_range[1] <= run /\ run <= bar_content[i].run_range[2] THEN i
    ELSE AdcScan(bar_content, run, i + 1)

FastTotalEntry(info) ==
    [nonlinear_fast_threshold |-> info.nonlinear_fast_threshold,
     stationary_point_x |-> info.stationary_point_x,
     stationary_point_y |-> info.stationary_point_y,
     fit_params0 |-> Sub(info.linear_fit_params[1], info.quadratic_fit_params[1]),
     fit_params1 |-> Sub(info.linear_fit_params[2], info.quadratic_fit_params[2]),
     fit_params2 |-> Neg(info.quadratic_fit_params[3])]

LogRatioEntry(info) ==
    [attenuation_length |-> info.attenuation_length, gain_ratio |-> info.gain_ratio]

\* the loop for (bar = 1; bar <= 24; ++bar) of load_fast_total from bar on: the map
\* it leaves, and the bar at which it called exit(1) (0: none)
RECURSIVE FastTotalBars(_, _, _, _)
FastTotalBars(map, content, run, bar) ==
    IF bar > NBars THEN [map |-> map, failed |-> 0]
    ELSE LET i == AdcScan(content[bar], run, 1)
         IN  IF i = 0 THEN [map |-> map, failed |-> bar]
             ELSE FastTotalBars([b \in DOMAIN map \cup {bar} |->
                                    IF b = bar THEN FastTotalEntry(content[bar][i]) ELSE map[b]],
                                content, run, bar + 1)

\* the same loop of load_log_ratio_total
RECURSIVE LogRatioBars(_, _, _, _)
LogRatioBars(map, content, run, bar) ==
    IF bar > NBars THEN [map |-> map, failed |-> 0]
    ELSE LET i == AdcScan(content[bar], run, 1)
         IN  IF i = 0 THEN [map |-> map, failed |-> bar]
             ELSE LogRatioBars([b \in DOMAIN map \cup {bar} |->
                                   IF b = bar THEN LogRatioEntry(content[bar][i]) ELSE map[b]],
                               content, run, bar + 1)

\* void NWADCPreprocessorParamReader::load_fast_total(char side)
load_fast_total(a, w, fo, run, side) ==
    LET f == IF side = "L" THEN "fast_total_L" ELSE "fast_total_R"
        m == IF side = "L" THEN a.fast_total_L ELSE a.fast_total_R
    IN  IF ~fo[f] THEN [adc |-> a, exited |-> TRUE, msg |-> {CannotOpen(f)}]
        ELSE LET r  == FastTotalBars(m, FastTotalDb(w, side), run, 1)
                 a1 == IF side = "L" THEN [a EXCEPT !.fast_total_L = r.map]
                                     ELSE [a EXCEPT !.fast_total_R = r.map]
             IN  IF r.failed # 0
                 THEN [adc |-> a1, exited |-> TRUE, msg |-> {RunNotFound(run, r.failed)}]
                 ELSE [adc |-> a1, exited |-> FALSE, msg |-> {}]

\* void NWADCPreprocessorParamReader::load_log_ratio_total()
load_log_ratio_total(a, w, fo, run) ==
    IF ~fo["log_ratio_total"]
    THEN [adc |-> a, exited |-> TRUE, msg |-> {CannotOpen("log_ratio_total")}]
    ELSE LET r  == LogRatioBars(a.log_ratio_total, LogRatioDb(w), run, 1)
             a1 == [a EXCEPT !.log_ratio_total = r.map]
         IN  IF r.failed # 0
             THEN [adc |-> a1, exited |-> TRUE, msg |-> {RunNotFound(run, r.failed)}]
             ELSE [adc |-> a1, exited |-> FALSE, msg |-> {}]

\* void NWADCPreprocessorParamReader::load(int run)
AdcLoadResult(a, w, fo, run) ==
    LET a0 == [a EXCEPT !.run = run]
        rL == load_fast_total(a0, w, fo, run, "L")
        rR == load_fast_total(rL.adc, w, fo, run, "R")
        rT == load_log_ratio_total(rR.adc, w, fo, run)
    IN  IF rL.exited THEN rL ELSE IF rR.exited THEN rR ELSE rT

\* NWADCPreprocessorParamReader(AB)
AdcConstruct ==
    /\ under_test = "adc" /\ Alive /\ ~constructed
    /\ IF ~project_dir
       THEN /\ err' = err \cup {NoProjectDir}
            /\ proc' = "exited"
            /\ UNCHANGED constructed
       ELSE /\ constructed' = TRUE
            /\ UNCHANGED <<err, proc>>
    /\ UNCHANGED <<envVars, psd, mainVars, ncalls, ret, loaded_run, posVars, tof, adc, light>>

AdcLoad(run) ==
    /\ Call("adc")
    /\ LET r == AdcLoadResult(adc, win, fopen, run)
       IN  /\ adc' = r.adc
           /\ err' = err \cup r.msg
           /\ proc' = IF r.exited THEN "exited" ELSE proc
    /\ ret' = [op |-> "load", args |-> <<run>>, val |-> <<>>]
    /\ loaded_run' = run
    /\ ncalls' = ncalls + 1
    /\ UNCHANGED <<envVars, psd, mainVars, constructed, posVars, tof, light>>

(***************************************************************************)
(* NWLightOutputCalibParamReader                                           *)
(***************************************************************************)
\* pulse-height text file: a header line, then rows <bar> <a> <b> <c> <d> <e>
PulRows ==
    [u \in Units |-> [a |-> I(u), b |-> Rat(u, 2), c |-> I(0), d |-> I(-u), e |-> Rat(1, 10)]]

\* NWLightOutputCalibParamReader(AB)
LightConstruct ==
    /\ under_test = "light" /\ Alive /\ ~constructed
    /\ IF ~project_dir
       THEN /\ err' = err \cup {NoProjectDir}
            /\ proc' = "exited"
            /\ UNCHANGED constructed
       ELSE /\ constructed' = TRUE
            /\ UNCHANGED <<err, proc>>
    /\ UNCHANGED <<envVars, psd, mainVars, ncalls, ret, loaded_run, posVars, tof, adc, light>>

\* void NWLightOutputCalibParamReader::load(int run), that is load_pulse_height():
\* the stream is never tested with is_open(); on a stream that failed to open
\* getline fails without setting eofbit, so while (!infile.eof()) never ends
LightLoad(run) ==
    /\ Call("light")
    /\ IF ~fopen["pul"]
       THEN /\ proc' = "hung"
            /\ UNCHANGED light
       ELSE /\ light' = [light EXCEPT !.run_param = PulRows]
            /\ UNCHANGED proc
    /\ ret' = [op |-> "load", args |-> <<run>>, val |-> <<>>]
    /\ loaded_run' = run
    /\ ncalls' = ncalls + 1
    /\ UNCHANGED <<envVars, psd, mainVars, constructed, err, posVars, tof, adc>>

(***************************************************************************)
(* NWPulseShapeDiscriminationParamReader                                   *)
(***************************************************************************)
\* for (double total = -20.0; total <= 4020.0; total += 20.0)
GridFirst == -20

GridLast == 4020

GridStep == 20

GridSize == (GridLast - GridFirst) \div GridStep + 1

\* totals[i - 1]
Total(i) == I(GridFirst + GridStep * (i - 1))

\* double polynomial(double x, params): sum of params[i] * pow(x, i)
RECURSIVE PolyFrom(_, _, _)
PolyFrom(x, params, i) ==
    IF i > Len(params) THEN I(0)
    ELSE Add(Mul(params[i], Pow(x, i - 1)), PolyFrom(x, params, i + 1))

polynomial(x, params) == PolyFrom(x, params, 1)

\* a slope that drops the factor 2 of the derivative
get_neutron_linear_params_half_slope(x_switch_neutron, quad) ==
    LET lin1 == Add(quad[2], Mul(quad[3], x_switch_neutron))
        lin0 == Sub(Add(Add(quad[1], Mul(quad[2], x_switch_neutron)),
                        Mul(quad[3], Pow(x_switch_neutron, 2))),
                    Mul(lin1, x_switch_neutron))
    IN  <<lin0, lin1>>

\* get_neutron_linear_params(x_switch_neutron, std::vector<double>& quadratic_params);
\* quad[0], quad[1], quad[2] are quad[1], quad[2], quad[3] here
get_neutron_linear_params(x_switch_neutron, quad) ==
    LET lin1 == Add(quad[2], Mul(Mul(I(2), quad[3]), x_switch_neutron))
        lin0 == Sub(Add(Add(quad[1], Mul(quad[2], x_switch_neutron)),
                        Mul(quad[3], Pow(x_switch_neutron, 2))),
                    Mul(lin1, x_switch_neutron))
    IN  <<lin0, lin1>>

\* get_neutron_linear_params(x_switch_neutron, Json& quadratic_params): copies the
\* list into a vector and calls the overload above, which reads quad[2] whatever
\* the vector's size; past the end of a two-element vector the read is undefined
\* and yields past_end
get_neutron_linear_params_json(x_switch_neutron, quadratic_params, past_end) ==
    get_neutron_linear_params(
        x_switch_neutron,
        IF Len(quadratic_params) >= 3 THEN quadratic_params
        ELSE <<quadratic_params[1], quadratic_params[2], past_end>>)

\* An Interpolator over the sampling grid is kept as the data its knots are
\* computed from: form "grid", the coefficient lists cline and cfast, and for a
\* neutron curve the switch point and the value a read past the end yields.
\* An Interpolator over centroid_pos_x is kept as its knots: form "table".
GammaCurve(cline, cfast) ==
    [form |-> "grid", neutron |-> FALSE, cline |-> cline, cfast |-> cfast,
     x_switch |-> I(0), past_end |-> I(0), x |-> <<>>, y |-> <<>>]

NeutronCurve(cline, cfast, x_switch, past_end) ==
    [form |-> "grid", neutron |-> TRUE, cline |-> cline, cfast |-> cfast,
     x_switch |-> x_switch, past_end |-> past_end, x |-> <<>>, y |-> <<>>]

TableCurve(xs, ys) ==
    [form |-> "table", neutron |-> FALSE, cline |-> <<>>, cfast |-> <<>>,
     x_switch |-> I(0), past_end |-> I(0), x |-> xs, y |-> ys]

\* the list get_neutron_linear_params has been applied to k times in a row
RECURSIVE Relinearised(_, _)
Relinearised(c, k) ==
    IF k = 0 THEN c.cfast
    ELSE get_neutron_linear_params_json(c.x_switch, Relinearised(c, k - 1), c.past_end)

\* params["n_cfast_L"] (or _R) after the loop of fast_total_interpolation has
\* handled totals[0 .. i-1]: _params is a reference into params, so the assignment
\* _params = get_neutron_linear_params(...) replaces the stored list, once for
\* every grid point with totals[j] >= x_switch_neutron
NeutronParamsAfter(c, i) ==
    Relinearised(c, Cardinality({j \in 1..i : Ge(Total(j), c.x_switch)}))

\* fasts[i - 1] as fast_total_interpolation pushes it
Fast(c, i) ==
    IF c.neutron
    THEN Add(polynomial(Total(i), c.cline), polynomial(Total(i), NeutronParamsAfter(c, i)))
    ELSE Add(polynomial(Total(i), c.cline), polynomial(Total(i), c.cfast))

NKnots(c) == IF c.form = "grid" THEN GridSize ELSE Len(c.x)

KnotX(c, i) == IF c.form = "grid" THEN Total(i) ELSE c.x[i]

KnotY(c, i) == IF c.form = "grid" THEN Fast(c, i) ELSE c.y[i]

\* the knot interval [KnotX(i), KnotX(i + 1)] used at x: the one holding x, the
\* first one below the knots, the last one above them
RECURSIVE TableSegment(_, _, _)
TableSegment(c, x, i) ==
    IF i >= Len(c.x) - 1 \/ Lt(x, c.x[i + 1]) THEN i ELSE TableSegment(c, x, i + 1)

GridSegment(x) ==
    LET k == (x.n - GridFirst * x.d) \div (GridStep * x.d) + 1
    IN  IF k < 1 THEN 1 ELSE IF k > GridSize - 1 THEN GridSize - 1 ELSE k

Segment(c, x) == IF c.form = "grid" THEN GridSegment(x) ELSE TableSegment(c, x, 1)

\* ROOT::Math::Interpolator::Eval(x) (kAKIMA), a library outside this code: the
\* interpolant passes through its knots (x0, y0), (x1, y1); between two knots and
\* beyond the last the straight line through the two nearest knots stands for it
Through(x, x0, y0, x1, y1) ==
    IF x = x0 THEN y0
    ELSE IF x = x1 THEN y1
    ELSE Add(y0, Div(Mul(Sub(y1, y0), Sub(x, x0)), Sub(x1, x0)))

Eval(c, x) ==
    LET i == Segment(c, x)
    IN  Through(x, KnotX(c, i), KnotY(c, i), KnotX(c, i + 1), KnotY(c, i + 1))

\* the coefficient lists of a parameter block, both sides
FlatCurves ==
    [x_switch_neutron |-> I(5000), cline_L |-> <<I(0)>>, g_cfast_L |-> <<I(400)>>, n_cfast_L |-> <<I(600), I(0), I(0)>>,
     cline_R |-> <<I(0)>>, g_cfast_R |-> <<I(400)>>, n_cfast_R |-> <<I(600), I(0), I(0)>>]

\* the L side with slopes and a quadratic neutron term, switched at 4000
SlopedCurves ==
    [x_switch_neutron |-> I(4000), cline_L |-> <<I(0), I(1)>>, g_cfast_L |-> <<I(10), I(1)>>,
     n_cfast_L |-> <<I(110), I(1), Rat(1, 4000)>>,
     cline_R |-> <<I(0)>>, g_cfast_R |-> <<I(400)>>, n_cfast_R |-> <<I(600), I(0), I(0)>>]

CoincidingCurves ==
    [x_switch_neutron |-> I(5000), cline_L |-> <<I(0)>>, g_cfast_L |-> <<I(400)>>, n_cfast_L |-> <<I(400), I(0), I(0)>>,
     cline_R |-> <<I(0)>>, g_cfast_R |-> <<I(400)>>, n_cfast_R |-> <<I(600), I(0), I(0)>>]

CurveSets ==
    {FlatCurves, [FlatCurves EXCEPT !.x_switch_neutron = I(4000)], SlopedCurves, CoincidingCurves,
     [FlatCurves EXCEPT !.n_cfast_R = <<I(400), I(0), I(0)>>]}

CentroidPosX == <<I(-100), I(-50), I(0), I(50), I(100)>>

Flat(v) == [i \in 1..Len(CentroidPosX) |-> v]

Centroids(gL, nL, gR, nR) ==
    [g_centroid_L |-> gL, n_centroid_L |-> nL, g_centroid_R |-> gR, n_centroid_R |-> nR]

CentroidSets ==
    {Centroids(Flat(I(0)), Flat(I(1)), Flat(I(0)), Flat(I(1))),
     Centroids(Flat(Rat(1, 5)), Flat(Rat(4, 5)), Flat(I(0)), Flat(I(1))),
     Centroids(Flat(I(0)), Flat(I(1)), <<I(0), I(0), I(0), Rat(1, 10), Rat(1, 5)>>, Flat(I(2))),
     Centroids(Flat(Rat(1, 2)), Flat(Rat(1, 2)), Flat(I(0)), Flat(I(0)))}

\* pca_mean, pca_components, pca_xpeaks
Pca(mean, components, xpeaks) ==
    [pca_mean |-> mean, pca_components |-> components, pca_xpeaks |-> xpeaks]

Identity == <<<<I(1), I(0)>>, <<I(0), I(1)>>>>

Rotation == <<<<Rat(3, 5), Rat(4, 5)>>, <<Rat(-4, 5), Rat(3, 5)>>>>

Matrices == {Identity, Rotation}

PcaSets ==
    {Pca(<<I(0), I(0)>>, Identity, <<I(0), I(1)>>),
     Pca(<<I(0), I(0)>>, Rotation, <<I(0), I(1)>>),
     Pca(<<Rat(1, 10), Rat(-1, 5)>>, Rotation, <<Rat(1, 4), Rat(3, 4)>>)}

\* the values a read past the end of the two-element vector may yield
PastEnd == {I(0), Rat(1, 1000)}

PsdBlock(curves, centroids, pca) ==
    [cline_L |-> curves.cline_L, g_cfast_L |-> curves.g_cfast_L, n_cfast_L |-> curves.n_cfast_L,
     cline_R |-> curves.cline_R, g_cfast_R |-> curves.g_cfast_R, n_cfast_R |-> curves.n_cfast_R,
     x_switch_neutron |-> curves.x_switch_neutron,
     centroid_pos_x |-> CentroidPosX,
     g_centroid_L |-> centroids.g_centroid_L, n_centroid_L |-> centroids.n_centroid_L,
     g_centroid_R |-> centroids.g_centroid_R, n_centroid_R |-> centroids.n_centroid_R,
     pca_mean |-> pca.pca_mean, pca_components |-> pca.pca_components,
     pca_xpeaks |-> pca.pca_xpeaks]

\* every curve set with the first centroid set, every centroid set with the flat
\* curves, each with every PCA set
PsdBlocks ==
    {PsdBlock(c, Centroids(Flat(I(0)), Flat(I(1)), Flat(I(0)), Flat(I(1))), p) :
        c \in CurveSets, p \in PcaSets}
    \cup {PsdBlock(FlatCurves, ce, p) : ce \in CentroidSets, p \in PcaSets}

\* flat gamma curves at 400, flat neutron curves at 600, flat centroid curves 0 and 1,
\* PCA mean (0, 0), anchors (0, 1)
ScenarioBlock ==
    PsdBlock(FlatCurves, Centroids(Flat(I(0)), Flat(I(1)), Flat(I(0)), Flat(I(1))),
             Pca(<<I(0), I(0)>>, Identity, <<I(0), I(1)>>))

\* PSD JSON: {"bar": [{"run_range": [a, b], <the block>}, ...]}; bar 1's first record
\* holds the block as it is, the others differ from it and from each other in pca_mean
PsdDb(w, blk) ==
    [u \in Units |->
        [i \in 1..Len(BarWindows(w, u)) |->
            [run_range |-> BarWindows(w, u)[i],
             params    |-> [blk EXCEPT !.pca_mean = <<Add(blk.pca_mean[1], I(i - 1)),
                                                     Add(blk.pca_mean[2], I(u - 1))>>]]]]

\* the loop of get_bar_params: run_start and run_stop are the run_range entries
\* cast from double to int
RECURSIVE PsdScan(_, _, _)
PsdScan(bar_params, run, i) ==
    IF i > Len(bar_params) THEN 0
    ELSE IF run >= ToInt(I(bar_params[i].run_range[1])) /\ run <= ToInt(I(bar_params[i].run_range[2]))
         THEN i
    ELSE PsdScan(bar_params, run, i + 1)

\* Json get_bar_params(int run, int bar): the index of the record returned, 0 when
\* params is empty and the reader prints its diagnostic and calls exit(1)
get_bar_params(database, run, bar) == PsdScan(database[bar], run, 1)

\* this->database: null until read_in_calib_params has read the file into it,
\* the content of the file from then on
Database(r, w, blk) == IF r.database THEN PsdDb(w, blk) ELSE <<>>

Put(map, k, v) == [x \in DOMAIN map \cup {k} |-> IF x = k THEN v ELSE map[x]]

\* void fast_total_interpolation(int bar, Json& params)
fast_total_interpolation(r, bar, params, past_end) ==
    [r EXCEPT
        !.gamma_fast_total_L = Put(@, bar, GammaCurve(params.cline_L, params.g_cfast_L)),
        !.neutron_fast_total_L = Put(@, bar, NeutronCurve(params.cline_L, params.n_cfast_L,
                                                         params.x_switch_neutron, past_end)),
        !.gamma_fast_total_R = Put(@, bar, GammaCurve(params.cline_R, params.g_cfast_R)),
        !.neutron_fast_total_R = Put(@, bar, NeutronCurve(params.cline_R, params.n_cfast_R,
                                                         params.x_switch_neutron, past_end))]

\* void centroid_interpolation(int bar, Json& params)
centroid_interpolation(r, bar, params) ==
    [r EXCEPT
        !.gamma_vpsd_L = Put(@, bar, TableCurve(params.centroid_pos_x, params.g_centroid_L)),
        !.neutron_vpsd_L = Put(@, bar, TableCurve(params.centroid_pos_x, params.n_centroid_L)),
        !.gamma_vpsd_R = Put(@, bar, TableCurve(params.centroid_pos_x, params.g_centroid_R)),
        !.neutron_vpsd_R = Put(@, bar, TableCurve(params.centroid_pos_x, params.n_centroid_R))]

\* void process_pca(int bar, Json& params)
process_pca(r, bar, params) ==
    [r EXCEPT
        !.pca_mean = Put(@, bar, params.pca_mean),
        !.pca_components = Put(@, bar, params.pca_components),
        !.pca_xpeaks = Put(@, bar, params.pca_xpeaks)]

\* the loop for (int bar : this->bars) of load from bar on: the reader it leaves
\* and the bar at which get_bar_params called exit(1) (0: none)
RECURSIVE PsdBars(_, _, _, _, _)
PsdBars(r, database, run, bar, past_end) ==
    IF bar > NBars THEN [psd |-> r, failed |-> 0]
    ELSE LET i == get_bar_params(database, run, bar)
         IN  IF i = 0 THEN [psd |-> r, failed |-> bar]
             ELSE LET params == database[bar][i].params
                  IN  PsdBars(process_pca(
                                  centroid_interpolation(
                                      fast_total_interpolation(r, bar, params, past_end),
                                      bar, params),
                                  bar, params),
                              database, run, bar + 1, past_end)

\* void NWPulseShapeDiscriminationParamReader::load(int run), read_in_calib_params() first
PsdLoadResult(r, w, blk, fo, run, past_end) ==
    IF ~fo["psd"] THEN [psd |-> r, exited |-> TRUE, msg |-> {CannotOpen("psd")}]
    ELSE LET r1 == [r EXCEPT !.database = TRUE]
             b  == PsdBars(r1, Database(r1, w, blk), run, 1, past_end)
         IN  IF b.failed # 0
             THEN [psd |-> b.psd, exited |-> TRUE, msg |-> {RunNotFound(run, b.failed)}]
             ELSE [psd |-> b.psd, exited |-> FALSE, msg |-> {}]

(***************************************************************************)
(* get_psd                                                                 *)
(***************************************************************************)
\* the digitizer ceiling, the half length of a bar, the value returned for bad data
ChargeMax == 4097

PosMax == 120

BadValue == -9999

\* std::array<double, 2> get_psd(psd_reader, bar, total_L, total_R, fast_L, fast_R, pos):
\* the pair returned, and the number of Eval calls made
\* a gate that also turns away the values on the limits
bad_data_limits_excluded(total_L, total_R, fast_L, fast_R, pos) ==
    \/ ~Gt(total_L, I(0)) \/ ~Gt(total_R, I(0)) \/ ~Gt(fast_L, I(0)) \/ ~Gt(fast_R, I(0))
    \/ Ge(total_L, I(ChargeMax)) \/ Ge(total_R, I(ChargeMax))
    \/ Ge(fast_L, I(ChargeMax)) \/ Ge(fast_R, I(ChargeMax))
    \/ ~Gt(pos, I(-PosMax)) \/ Ge(pos, I(PosMax))

\* "eliminate bad data": the condition of the early return
bad_data(total_L, total_R, fast_L, fast_R, pos) ==
    \/ Lt(total_L, I(0)) \/ Lt(total_R, I(0)) \/ Lt(fast_L, I(0)) \/ Lt(fast_R, I(0))
    \/ Gt(total_L, I(ChargeMax)) \/ Gt(total_R, I(ChargeMax))
    \/ Gt(fast_L, I(ChargeMax)) \/ Gt(fast_R, I(ChargeMax))
    \/ Lt(pos, I(-PosMax)) \/ Gt(pos, I(PosMax))

\* a division guarded against coinciding curves: 0 instead of inf or nan
value_assigning_guarded(gamma, neutron, fast) ==
    IF neutron = gamma THEN I(0) ELSE Div(Sub(fast, gamma), Sub(neutron, gamma))

\* a normalisation by the neutron curve value alone
value_assigning_by_neutron(gamma, neutron, fast) ==
    Div(Sub(fast, gamma), neutron)

\* "value assigning": vpsd_L (vpsd_R) from the fast charge and the two curve values
value_assigning(gamma, neutron, fast) ==
    Div(Sub(fast, gamma), Sub(neutron, gamma))

\* "project to gn_vec and gn_rot90": <<x, y>>, the components of xy along gn_vec and its 90-degree rotation
project_to_gn_vec(xy, gn_vec) ==
    LET gn_rot90 == <<Neg(gn_vec[2]), gn_vec[1]>>
    IN  <<Div(Add(Mul(xy[1], gn_vec[1]), Mul(xy[2], gn_vec[2])),
              Add(Mul(gn_vec[1], gn_vec[1]), Mul(gn_vec[2], gn_vec[2]))),
          Div(Add(Mul(xy[1], gn_rot90[1]), Mul(xy[2], gn_rot90[2])),
              Add(Mul(gn_rot90[1], gn_rot90[1]), Mul(gn_rot90[2], gn_rot90[2])))>>

\* a transform that returns the rotated coordinates
pca_transform_rotated(r, bar, xy0) ==
    LET x          == Sub(xy0[1], r.pca_mean[bar][1])
        y          == Sub(xy0[2], r.pca_mean[bar][2])
        pca_matrix == r.pca_components[bar]
        pca_x      == Add(Mul(pca_matrix[1][1], x), Mul(pca_matrix[1][2], y))
        pca_y      == Add(Mul(pca_matrix[2][1], x), Mul(pca_matrix[2][2], y))
        xpeaks     == r.pca_xpeaks[bar]
    IN  <<Div(Sub(pca_x, xpeaks[1]), Sub(xpeaks[2], xpeaks[1])), pca_y>>

\* "PCA transform" and "normalisation": pca_x and pca_y are computed and left
\* unused; ppsd and ppsd_perp come from the mean-subtracted x and y
pca_transform(r, bar, xy0) ==
    LET x          == Sub(xy0[1], r.pca_mean[bar][1])
        y          == Sub(xy0[2], r.pca_mean[bar][2])
        pca_matrix == r.pca_components[bar]
        pca_x      == Add(Mul(pca_matrix[1][1], x), Mul(pca_matrix[1][2], y))
        pca_y      == Add(Mul(pca_matrix[2][1], x), Mul(pca_matrix[2][2], y))
        xpeaks     == r.pca_xpeaks[bar]
        ppsd       == Div(Sub(x, xpeaks[1]), Sub(xpeaks[2], xpeaks[1]))
        ppsd_perp  == y
    IN  <<ppsd, ppsd_perp>>

get_psd(r, bar, total_L, total_R, fast_L, fast_R, pos) ==
    IF bad_data(total_L, total_R, fast_L, fast_R, pos)
    THEN [val |-> <<I(BadValue), I(BadValue)>>, evals |-> 0]
    ELSE
    LET gamma_L2   == Eval(r.gamma_vpsd_L[bar], pos)
        gamma_R2   == Eval(r.gamma_vpsd_R[bar], pos)
        xy         == <<Sub(value_assigning(Eval(r.gamma_fast_total_L[bar], total_L),
                                               Eval(r.neutron_fast_total_L[bar], total_L),
                                               fast_L), gamma_L2),
                        Sub(value_assigning(Eval(r.gamma_fast_total_R[bar], total_R),
                                               Eval(r.neutron_fast_total_R[bar], total_R),
                                               fast_R), gamma_R2)>>
        gn_vec     == <<Sub(Eval(r.neutron_vpsd_L[bar], pos), gamma_L2),
                        Sub(Eval(r.neutron_vpsd_R[bar], pos), gamma_R2)>>
    IN  [val |-> pca_transform(r, bar, project_to_gn_vec(xy, gn_vec)), evals |-> 8]

\* the hits the caller passes: <<total_L, total_R, fast_L, fast_R, pos>>
ScenarioHit == <<I(1000), I(1000), I(500), I(500), I(0)>>

OtherHit == <<I(4020), I(40), I(450), I(20), I(-50)>>

ChargeEdges == {Rat(-1, 10000), I(0), I(ChargeMax), Rat(10000 * ChargeMax + 1, 10000)}

PosEdges == {Rat(-(10000 * PosMax + 1), 10000), I(-PosMax), I(PosMax), Rat(10000 * PosMax + 1, 10000)}

Hits ==
    {ScenarioHit, OtherHit}
    \cup {[ScenarioHit EXCEPT ![k] = v] : k \in 1..4, v \in ChargeEdges}
    \cup {[ScenarioHit EXCEPT ![5] = v] : v \in PosEdges}

NoPsd ==
    [database |-> FALSE,
     gamma_fast_total_L |-> <<>>, neutron_fast_total_L |-> <<>>,
     gamma_fast_total_R |-> <<>>, neutron_fast_total_R |-> <<>>,
     gamma_vpsd_L |-> <<>>, neutron_vpsd_L |-> <<>>,
     gamma_vpsd_R |-> <<>>, neutron_vpsd_R |-> <<>>,
     pca_mean |-> <<>>, pca_components |-> <<>>, pca_xpeaks |-> <<>>]

\* NWPulseShapeDiscriminationParamReader(AB)
PsdConstruct ==
    /\ under_test \in {"psd", "lin"} /\ Alive /\ ~constructed
    /\ IF ~project_dir
       THEN /\ err' = err \cup {NoProjectDir}
            /\ proc' = "exited"
            /\ UNCHANGED constructed
       ELSE /\ constructed' = TRUE
            /\ UNCHANGED <<err, proc>>
    /\ UNCHANGED <<envVars, mainVars, ncalls, ret, loaded_run, posVars, tof, adc, light, psd>>

PsdLoad(run, past_end) ==
    /\ Call("psd")
    /\ LET r == PsdLoadResult(psd, win, psd_file, fopen, run, past_end)
       IN  /\ psd' = r.psd
           /\ err' = err \cup r.msg
           /\ proc' = IF r.exited THEN "exited" ELSE proc
    /\ ret' = [op |-> "load", args |-> <<run>>, val |-> <<>>]
    /\ loaded_run' = run
    /\ ncalls' = ncalls + 1
    /\ UNCHANGED <<envVars, mainVars, constructed, posVars, tof, adc, light>>

PsdGetPsd(bar, h) ==
    /\ Call("psd")
    /\ bar \in DOMAIN psd.pca_xpeaks
    /\ LET r == get_psd(psd, bar, h[1], h[2], h[3], h[4], h[5])
       IN  ret' = [op |-> "get_psd", args |-> <<bar, h>>, val |-> <<r.val, r.evals>>]
    /\ ncalls' = ncalls + 1
    /\ UNCHANGED <<envVars, mainVars, constructed, proc, err, loaded_run, posVars, tof, adc, light, psd>>

\* the switch points and quadratic coefficient lists the caller passes
LinSwitches == {I(0), I(3), Rat(-5, 2), I(4000)}

LinCoefs == {I(0), I(-1), Rat(1, 3), I(2)}

LinQuads == {<<q0, q1, q2>> : q0 \in LinCoefs, q1 \in LinCoefs, q2 \in LinCoefs}

\* a call of get_neutron_linear_params(double, std::vector<double>&): it reads
\* and writes no member of the reader
PsdGetNeutronLinearParams(x_switch_neutron, quad) ==
    /\ Call("lin")
    /\ ret' = [op |-> "get_neutron_linear_params", args |-> <<x_switch_neutron, quad>>,
               val |-> get_neutron_linear_params(x_switch_neutron, quad)]
    /\ ncalls' = ncalls + 1
    /\ UNCHANGED <<envVars, mainVars, constructed, proc, err, loaded_run, posVars, tof, adc, light, psd>>

(***************************************************************************)
(* main (calibrate.cpp): one hit per entry, the bar and the charges of the *)
(* hits fixed per behaviour (probe, hit), the times chosen per entry       *)
(***************************************************************************)
\* the input tree holds MaxEntries entries; first_entry = 0, n_entries < 0
MaxEntries == 2

\* getenv("PROJECT_DIR") == nullptr: diagnostic, return 1
MainStart ==
    /\ under_test = "main" /\ Alive /\ pc = "start"
    /\ IF ~project_dir
       THEN /\ err' = err \cup {NoProjectDir}
            /\ proc' = "returned"
            /\ pc' = "done"
       ELSE /\ pc' = "pcalib"
            /\ UNCHANGED <<err, proc>>
    /\ UNCHANGED <<envVars, ievt, evt, outtree, constructed, ncalls, ret, loaded_run, posVars,
                   tof, adc, light, psd>>

\* NWBPositionCalibParamReader nwb_pcalib; nwb_pcalib.load(argparser.run_num);
\* the bool that load returns is dropped
MainLoadPcalib(run_num) ==
    /\ under_test = "main" /\ Alive /\ pc = "pcalib"
    /\ LET r == PosLoadResult(param, win, fopen, run_num)
       IN  /\ param' = r.param
           /\ populated' = populated \cup r.written
           /\ err' = err \cup {CannotOpen(m) : m \in r.msg}
    /\ loaded_run' = run_num
    /\ pc' = "psd"
    /\ UNCHANGED <<envVars, ievt, evt, outtree, constructed, proc, ncalls, ret, tof, adc, light, psd>>

\* NWPulseShapeDiscriminationParamReader nwb_psd_reader('B');
\* nwb_psd_reader.load(argparser.run_num);
MainLoadPsd(past_end) ==
    /\ under_test = "main" /\ Alive /\ pc = "psd"
    /\ LET r == PsdLoadResult(psd, win, psd_file, fopen, loaded_run, past_end)
       IN  /\ psd' = r.psd
           /\ err' = err \cup r.msg
           /\ proc' = IF r.exited THEN "exited" ELSE proc
           /\ pc' = IF r.exited THEN "done" ELSE "local_paths"
    /\ UNCHANGED <<envVars, ievt, evt, outtree, constructed, ncalls, ret, loaded_run, posVars,
                   tof, adc, light>>

\* local_paths_json_file >> local_paths_json inside try/catch: a stream that did
\* not open makes the parse throw; diagnostic, return 1.  Otherwise the trees
\* are set up and the loop starts at first_entry
MainReadLocalPaths ==
    /\ under_test = "main" /\ Alive /\ pc = "local_paths"
    /\ IF ~fopen["local_paths"]
       THEN /\ err' = err \cup {CannotOpen("local_paths")}
            /\ proc' = "returned"
            /\ pc' = "done"
            /\ UNCHANGED ievt
       ELSE /\ pc' = "loop"
            /\ ievt' = 0
            /\ UNCHANGED <<err, proc>>
    /\ UNCHANGED <<envVars, evt, outtree, constructed, ncalls, ret, loaded_run, posVars,
                   tof, adc, light, psd>>

\* one pass of the main loop: GetEntry, get_position, get_psd, Fill
MainEntry(t) ==
    /\ under_test = "main" /\ Alive /\ pc = "loop" /\ ievt <= MaxEntries - 1
    /\ LET position == get_position(param, probe, t[1], t[2])
           psd_pair == get_psd(psd, probe, hit[1], hit[2], hit[3], hit[4], position.val).val
       IN  /\ param' = position.param
           /\ evt' = [NWB_bar |-> probe, NWB_time_L |-> t[1], NWB_time_R |-> t[2],
                      NWB_pos |-> position.val,
                      NWB_psd |-> psd_pair[1], NWB_psd_perp |-> psd_pair[2]]
    /\ outtree' = outtree + 1
    /\ ievt' = ievt + 1
    /\ UNCHANGED <<envVars, pc, constructed, proc, err, ncalls, ret, loaded_run, populated,
                   tof, adc, light, psd>>

\* after the loop: the output is written, return 0
MainReturn ==
    /\ under_test = "main" /\ Alive /\ pc = "loop" /\ ievt > MaxEntries - 1
    /\ pc' = "done"
    /\ proc' = "returned"
    /\ UNCHANGED <<envVars, ievt, evt, outtree, constructed, err, ncalls, ret, loaded_run, posVars,
                   tof, adc, light, psd>>

(***************************************************************************)
(* Readers: one reader with its caller                                     *)
(***************************************************************************)
\* the files a reader opens; the others play no part while it is under test
FilesOf(reader) ==
    IF reader = "pos" THEN {"pcalib", "pca"}
    ELSE IF reader = "tof" THEN {"tof"}
    ELSE IF reader = "adc" THEN {"fast_total_L", "fast_total_R", "log_ratio_total"}
    ELSE IF reader = "light" THEN {"pul"}
    ELSE IF reader = "psd" THEN {"psd"}
    ELSE IF reader = "main" THEN {"pcalib", "pca", "psd", "local_paths"}
    ELSE {}

\* the files of a reader that hold run-range records
RecordFiles(reader) ==
    IF reader = "pos" THEN {"pcalib"}
    ELSE IF reader = "light" THEN {}
    ELSE FilesOf(reader)

\* a path that still holds the placeholder $PROJECT_DIR names no file
InitFiles(reader) ==
    /\ project_dir \in BOOLEAN
    /\ fopen \in [FileNames -> BOOLEAN]
    /\ \A f \in FileNames : f \notin FilesOf(reader) => fopen[f]
    /\ ~project_dir => \A f \in FilesOf(reader) : ~fopen[f]

InitState ==
    /\ constructed = FALSE
    /\ proc = "running"
    /\ err = {}
    /\ ncalls = 0
    /\ ret = NoRet
    /\ loaded_run = 0
    /\ param = <<>>
    /\ populated = {}
    /\ tof = [database |-> <<>>, tof_offset |-> <<>>]
    /\ adc = [run |-> 0, fast_total_L |-> <<>>, fast_total_R |-> <<>>, log_ratio_total |-> <<>>]
    /\ light = [run_param |-> <<>>]
    /\ psd = NoPsd
    /\ pc = "start"
    /\ ievt = 0
    /\ evt = <<>>
    /\ outtree = 0

InitReader(reader) ==
    /\ under_test = reader
    /\ InitFiles(reader)
    /\ win \in (IF \A f \in RecordFiles(reader) : ~fopen[f] THEN {<<>>} ELSE Windows)
    /\ probe \in (IF reader = "pos" THEN {1, NBars + 1} ELSE {1})
    /\ psd_file = ScenarioBlock
    /\ hit = ScenarioHit
    /\ InitState

InitReaders == \E reader \in {"pos", "tof", "adc", "light", "psd", "lin"} : InitReader(reader)

NextReaders ==
    \/ PosConstruct
    \/ \E run \in Runs : PosLoad(run)
    \/ \E par \in GetKeys : PosGet(probe, par)
    \/ \E t \in Times : PosGetPosition(probe, t)
    \/ \E load_params \in BOOLEAN : TofConstruct(load_params)
    \/ TofLoadTofOffset
    \/ \E run \in Runs : TofLoad(run)
    \/ AdcConstruct
    \/ \E run \in Runs : AdcLoad(run)
    \/ LightConstruct
    \/ \E run \in Runs : LightLoad(run)
    \/ PsdConstruct
    \/ \E run \in Runs, past_end \in PastEnd : PsdLoad(run, past_end)
    \/ \E x_switch_neutron \in LinSwitches, quad \in LinQuads :
           PsdGetNeutronLinearParams(x_switch_neutron, quad)

SpecReaders == InitReaders /\ [][NextReaders]_vars

(***************************************************************************)
(* Psd: a NWPulseShapeDiscriminationParamReader, its file holding any of   *)
(* the parameter blocks, and get_psd on its bars                           *)
(***************************************************************************)
\* every bar holds a record covering every run
FullWindows == [i \in 1..NBars |-> <<1, MaxRun>>]

InitPsd ==
    /\ under_test = "psd"
    /\ project_dir = TRUE
    /\ fopen = [f \in FileNames |-> TRUE]
    /\ win = FullWindows
    /\ psd_file \in PsdBlocks
    /\ probe \in Units
    /\ hit \in Hits
    /\ InitState

\* the caller loads the reader once, as main does, then passes hits; every
\* record covers every run, so the run loaded plays no part
NextPsd ==
    \/ PsdConstruct
    \/ \E past_end \in PastEnd : ~psd.database /\ PsdLoad(1, past_end)
    \/ PsdGetPsd(probe, hit)

SpecPsd == InitPsd /\ [][NextPsd]_vars

(***************************************************************************)
(* Spec: the program calibrate                                             *)
(***************************************************************************)
\* the charges of the hits in the input tree
MainHits == {ScenarioHit, [ScenarioHit EXCEPT ![1] = Rat(-1, 10000)]}

Init ==
    /\ under_test = "main"
    /\ InitFiles("main")
    /\ win \in {FullWindows, <<>>}
    /\ psd_file = ScenarioBlock
    /\ probe \in Units
    /\ hit \in MainHits
    /\ InitState

Next ==
    \/ MainStart
    \/ \E run_num \in Runs : MainLoadPcalib(run_num)
    \/ \E past_end \in PastEnd : MainLoadPsd(past_end)
    \/ MainReadLocalPaths
    \/ \E t \in Times : MainEntry(t)
    \/ MainReturn

Spec == Init /\ [][Next]_vars

(***************************************************************************)
(* properties                                                              *)
(***************************************************************************)
\* whether record i of a series of run ranges covers run (closed range)
Covers(ranges, run, i) == ranges[i][1] <= run /\ run <= ranges[i][2]

\* the first record of the series that covers run, 0 when none does
FirstCovering(ranges, run) ==
    IF \E i \in 1..Len(ranges) : Covers(ranges, run, i)
    THEN CHOOSE i \in 1..Len(ranges) :
             Covers(ranges, run, i) /\ \A j \in 1..(i - 1) : ~Covers(ranges, run, j)
    ELSE 0

\* C1: whenever get_position is called for a bar whose p0 and p1 a load has
\* written, it returns p0 + p1 * (time_L - time_R) with the stored p0 and p1 as
\* they are, fractions included (p0 = 5.0, p1 = 0.02, 100, 80 gives 5.4).
C1_PositionFromStoredConstants ==
    (under_test = "pos" /\ ret.op = "get_position"
        /\ {<<ret.args[1], "p0">>, <<ret.args[1], "p1">>} \subseteq populated)
    => ret.val[1] = Add(param[<<ret.args[1], "p0">>],
                        Mul(param[<<ret.args[1], "p1">>], Sub(ret.args[2], ret.args[3])))

\* C2: after a load of run r that ran to its end, every bar whose series holds a
\* record covering r is bound to the constants of the first such record in file
\* order, in the position, time-of-flight, ADC and PSD readers alike.
C2_FirstCoveringRecordWins ==
    (ret.op = "load" /\ proc = "running")
    => \A u \in Units :
        LET i == FirstCovering(BarWindows(win, u), loaded_run)
        IN  i # 0 =>
            /\ (under_test = "pos" /\ fopen["pcalib"])
                => /\ param[<<u, "p0">>] = PosDb(win)[u][i].parameters[1]
                   /\ param[<<u, "p1">>] = PosDb(win)[u][i].parameters[2]
            /\ (under_test = "tof" /\ tof.database # <<>>)
                => tof.tof_offset[u] = TofDb(win)[u][i].tof_offset
            /\ under_test = "adc"
                => /\ adc.fast_total_L[u].nonlinear_fast_threshold
                        = FastTotalDb(win, "L")[u][i].nonlinear_fast_threshold
                   /\ adc.fast_total_R[u].stationary_point_x
                        = FastTotalDb(win, "R")[u][i].stationary_point_x
                   /\ adc.log_ratio_total[u].attenuation_length
                        = LogRatioDb(win)[u][i].attenuation_length
            /\ under_test = "psd"
                => psd.pca_mean[u] = PsdDb(win, psd_file)[u][i].params.pca_mean

\* C2 witness: a position load of a run that two records of bar 1 cover, the
\* second one narrower than the first.
C2_OverlapLoaded ==
    /\ under_test = "pos" /\ ret.op = "load" /\ fopen["pcalib"]
    /\ Len(win) >= 2
    /\ Covers(win, loaded_run, 1) /\ Covers(win, loaded_run, 2)
    /\ win[2][1] = win[2][2] /\ win[1][1] < win[1][2]

\* C3: a get for a (bar, key) that no load has written returns 0, prints nothing
\* and leaves the process running, whatever loads and gets came before.
C3_UnpopulatedGetIsZero ==
    [][(ret'.op = "get" /\ ncalls' = ncalls + 1
            /\ <<ret'.args[1], ret'.args[2]>> \notin populated)
        => (ret'.val = <<I(0)>> /\ err' = err /\ proc' = proc /\ proc = "running")]_vars

\* C3 witness: after a load, a get for a (bar, key) that no load has written.
C3_UnpopulatedGetMade ==
    /\ under_test = "pos" /\ ret.op = "get" /\ loaded_run # 0
    /\ <<ret.args[1], ret.args[2]>> \notin populated

\* C4: get_psd returns (-9999, -9999) with no curve evaluated exactly when a
\* charge is < 0 or > 4097 or pos is < -120 or > 120; a hit on a limit (0, 4097,
\* -120, 120) goes on to the curve evaluations.
C4_GateExactlyOutsideLimits ==
    ret.op = "get_psd"
    => LET h     == ret.args[2]
           gated == \/ \E k \in 1..4 : Lt(h[k], I(0)) \/ Gt(h[k], I(4097))
                    \/ Lt(h[5], I(-120)) \/ Gt(h[5], I(120))
       IN  /\ gated => (ret.val[1] = <<I(-9999), I(-9999)>> /\ ret.val[2] = 0)
           /\ ~gated => ret.val[2] > 0

\* C4 witness: a hit with a charge of exactly 4097 went on to the curves.
C4_LimitHitEvaluated ==
    /\ ret.op = "get_psd"
    /\ ret.args[2][1] = I(4097)
    /\ ret.val[2] > 0

\* C5: for a hit that passes the gate and meets no zero denominator, get_psd
\* returns pid_score = (x - peak_gamma) / (peak_neutron - peak_gamma) and
\* pid_score_perp = y, x and y the projections of xy on gn and gn_perp divided by
\* |gn|^2 (the same for both) minus the mean; the scenario hit gives 0.5.
C5_PidScoreFormula ==
    (ret.op = "get_psd" /\ ret.val[2] > 0)
    => LET b      == ret.args[1]
           h      == ret.args[2]
           gL     == Eval(psd.gamma_fast_total_L[b], h[1])
           nL     == Eval(psd.neutron_fast_total_L[b], h[1])
           gR     == Eval(psd.gamma_fast_total_R[b], h[2])
           nR     == Eval(psd.neutron_fast_total_R[b], h[2])
           gcL    == Eval(psd.gamma_vpsd_L[b], h[5])
           ncL    == Eval(psd.neutron_vpsd_L[b], h[5])
           gcR    == Eval(psd.gamma_vpsd_R[b], h[5])
           ncR    == Eval(psd.neutron_vpsd_R[b], h[5])
           vL     == Div(Sub(h[3], gL), Sub(nL, gL))
           vR     == Div(Sub(h[4], gR), Sub(nR, gR))
           xyx    == Sub(vL, gcL)
           xyy    == Sub(vR, gcR)
           gnx    == Sub(ncL, gcL)
           gny    == Sub(ncR, gcR)
           gg     == Add(Mul(gnx, gnx), Mul(gny, gny))
           pp     == Add(Mul(Neg(gny), Neg(gny)), Mul(gnx, gnx))
           x      == Sub(Div(Add(Mul(xyx, gnx), Mul(xyy, gny)), gg), psd.pca_mean[b][1])
           y      == Sub(Div(Add(Mul(xyx, Neg(gny)), Mul(xyy, gnx)), pp), psd.pca_mean[b][2])
           peaks  == psd.pca_xpeaks[b]
           defined == /\ nL # gL /\ nR # gR /\ gg # I(0) /\ peaks[1] # peaks[2]
       IN  /\ gg = pp
           /\ defined
                => ret.val[1] = <<Div(Sub(x, peaks[1]), Sub(peaks[2], peaks[1])), y>>
           /\ (b = 1 /\ psd_file = ScenarioBlock /\ h = ScenarioHit)
                => (vL = Rat(1, 2) /\ vR = Rat(1, 2) /\ ret.val[1][1] = Rat(1, 2))

\* C5 witness: the scenario hit on the scenario parameters returned 0.5.
C5_ScenarioScored ==
    /\ ret.op = "get_psd" /\ ret.args = <<1, ScenarioHit>>
    /\ psd_file = ScenarioBlock
    /\ ret.val[1][1] = Rat(1, 2)

\* C6: the pair get_psd returns is the same whatever the bar's pca_components
\* matrix is, and its second entry is the mean-subtracted projection y itself.
C6_RotationNotApplied ==
    (ret.op = "get_psd" /\ ret.val[2] > 0)
    => LET b == ret.args[1]
           h == ret.args[2]
       IN  \A m \in Matrices :
               get_psd([psd EXCEPT !.pca_components[b] = m], b, h[1], h[2], h[3], h[4], h[5]).val
                   = ret.val[1]

\* C6 witness: a hit evaluated on a bar whose matrix is a proper rotation.
C6_RotatedBarEvaluated ==
    /\ ret.op = "get_psd" /\ ret.val[2] > 0
    /\ psd.pca_components[ret.args[1]] = Rotation
    /\ IsFinite(ret.val[1][1]) /\ ret.val[1][2] # I(0)

\* C7: get_neutron_linear_params returns (lin0, lin1) with lin1 = q1 + 2 q2 xs and
\* lin0 + lin1 xs = q0 + q1 xs + q2 xs^2: value and slope of the line equal those
\* of the quadratic at the switch point.
C7_LinearMatchesQuadratic ==
    ret.op = "get_neutron_linear_params"
    => LET xs  == ret.args[1]
           q   == ret.args[2]
           lin == ret.val
       IN  /\ lin[2] = Add(q[2], Mul(I(2), Mul(q[3], xs)))
           /\ Add(lin[1], Mul(lin[2], xs))
                = Add(q[1], Add(Mul(q[2], xs), Mul(q[3], Mul(xs, xs))))

\* C7 witness: a call with a curved quadratic and a non-zero switch point.
C7_CurvedQuadraticLinearised ==
    /\ ret.op = "get_neutron_linear_params"
    /\ ret.args[1] = I(4000)
    /\ ret.args[2][3] = Rat(1, 3)

\* C8: when a calibration file (position JSON, PCA table, PSD JSON) cannot be
\* opened, main stops at the load: no entry is fetched, calibrated or filled.
C8_NoEntryAfterUnopenableFile ==
    (under_test = "main" /\ (~fopen["pcalib"] \/ ~fopen["pca"] \/ ~fopen["psd"]))
    => (outtree = 0 /\ evt = <<>>)

\* C9: after a load of run r, a bar of the file whose records all miss r either
\* stopped the process or has a diagnostic naming r and the bar.
C9_UncoveredBarAbortsOrLogs ==
    (under_test \in {"pos", "tof", "adc", "psd"} /\ ret.op = "load"
        /\ \A f \in FilesOf(under_test) : fopen[f])
    => \A u \in Units :
        (Len(BarWindows(win, u)) > 0 /\ FirstCovering(BarWindows(win, u), loaded_run) = 0
            /\ (under_test = "tof" => tof.database # <<>>))
        => (proc = "exited" \/ RunNotFound(loaded_run, u) \in err)

\* C10: once a load has run to its end, no get and no get_position changes the key
\* set or a value of param.
C10_StoreReadOnlyAfterLoad ==
    [][(under_test = "pos" /\ loaded_run # 0 /\ fopen["pcalib"] /\ fopen["pca"]
            /\ ncalls' = ncalls + 1 /\ ret'.op \in {"get", "get_position"})
        => param' = param]_vars

\* C11: with PROJECT_DIR absent, no reader comes out of its constructor and main
\* does not get past its start: the process has ended with a diagnostic, and no
\* load is made.
C11_NoProjectDirIsFatal ==
    ~project_dir
    => /\ ~constructed
       /\ loaded_run = 0
       /\ (proc # "running" => NoProjectDir \in err)
       /\ (under_test = "main" => pc \in {"start", "done"})

\* C12: a hit that passes the gate on a bar whose gamma and neutron curves have
\* the same value at the hit's total charge (L or R) gets a pid_score that is
\* inf or nan; it is not the bad-data pair, nothing is printed, nothing exits.
C12_CoincidingCurvesGiveNonFinite ==
    (ret.op = "get_psd" /\ ret.val[2] > 0)
    => LET b == ret.args[1]
           h == ret.args[2]
           coincide ==
               \/ Eval(psd.neutron_fast_total_L[b], h[1]) = Eval(psd.gamma_fast_total_L[b], h[1])
               \/ Eval(psd.neutron_fast_total_R[b], h[2]) = Eval(psd.gamma_fast_total_R[b], h[2])
       IN  coincide
           => /\ ~IsFinite(ret.val[1][1])
              /\ ret.val[1] # <<I(-9999), I(-9999)>>
              /\ proc = "running" /\ err = {}

\* C12 witness: the scenario hit on a bar whose L curves coincide came back with
\* an infinite pid_score.
C12_InfiniteScoreReturned ==
    /\ ret.op = "get_psd" /\ ret.val[2] > 0
    /\ ret.args[2] = ScenarioHit
    /\ Eval(psd.neutron_fast_total_L[ret.args[1]], ScenarioHit[1])
         = Eval(psd.gamma_fast_total_L[ret.args[1]], ScenarioHit[1])
    /\ ret.val[1][1].k = "inf"

\* the sample at totals[i - 1] when the linear form is derived from the three
\* coefficients the record holds
SampleFromOriginal(c, i) ==
    IF Ge(Total(i), c.x_switch)
    THEN Add(polynomial(Total(i), c.cline),
             polynomial(Total(i), get_neutron_linear_params(c.x_switch, c.cfast)))
    ELSE Add(polynomial(Total(i), c.cline), polynomial(Total(i), c.cfast))

\* C13: for every loaded bar, side and grid point, the neutron coefficient list is
\* still the record's three coefficients after the grid point has been handled, and
\* the sample is cline(total) plus the quadratic below x_switch, plus the line
\* derived from those three coefficients from x_switch on.
C13_NeutronCoefficientsKeptAcrossGrid ==
    \A b \in DOMAIN psd.neutron_fast_total_L :
        \A c \in {psd.neutron_fast_total_L[b], psd.neutron_fast_total_R[b]} :
            \A i \in 1..GridSize :
                /\ NeutronParamsAfter(c, i) = c.cfast
                /\ KnotY(c, i) = SampleFromOriginal(c, i)

\* C13, the samples alone: whatever the list holds, every sample has the value the
\* record's three coefficients give.
C13_SamplesFromOriginalCoefficients ==
    \A b \in DOMAIN psd.neutron_fast_total_L :
        \A c \in {psd.neutron_fast_total_L[b], psd.neutron_fast_total_R[b]} :
            \A i \in 1..GridSize : KnotY(c, i) = SampleFromOriginal(c, i)

\* C14: after a load of the position or the TOF reader, each bar holds the
\* constants of the first record covering the run just loaded; a bar that no
\* record covers for that run is unresolved, whatever earlier loads resolved:
\* get gives 0 for its p0 and p1, and it has no tof_offset.
C14_OnlyLatestLoadActive ==
    (ret.op = "load" /\ proc = "running")
    => \A u \in Units :
        LET i == FirstCovering(BarWindows(win, u), loaded_run)
        IN  /\ (under_test = "pos" /\ fopen["pcalib"])
                => IF i # 0
                   THEN /\ param[<<u, "p0">>] = PosDb(win)[u][i].parameters[1]
                        /\ param[<<u, "p1">>] = PosDb(win)[u][i].parameters[2]
                   ELSE /\ get(param, u, "p0").val = I(0)
                        /\ get(param, u, "p1").val = I(0)
            /\ (under_test = "tof" /\ tof.database # <<>>)
                => IF i # 0
                   THEN tof.tof_offset[u] = TofDb(win)[u][i].tof_offset
                   ELSE u \notin DOMAIN tof.tof_offset

====
